---- MODULE Spec2Model ----
(***************************************************************************)
(* Inventory service of nikallow/bookstores-api.                           *)
(*                                                                         *)
(* main() opens ONE pgx connection (pgx.Connect) and hands it to every     *)
(* service: repo.New(conn) is the Querier of all services and the same     *)
(* conn is the db of the inventory service, so AdjustSKUStock's            *)
(* s.db.Begin / repo.New(tx) run on the very session every other request   *)
(* uses.  The HTTP server runs each request on its own goroutine, so the   *)
(* statements of different requests interleave on that one PostgreSQL      *)
(* session.  The model therefore has one session with one transaction      *)
(* status; a request step is one SQL statement on the wire.                *)
(***************************************************************************)
EXTENDS Integers, FiniteSets, Sequences, TLC

\* ---------------------------------------------------------------- bounds
NumReq == 2          \* HTTP requests in one run of Spec
NumSkuReq == 3       \* HTTP requests in one run of SpecSku
MaxConc == 2         \* requests in flight at the same time
InitStock == 2       \* stock_count of the SKU present at start
MaxPrice == 1        \* prices range over 0..MaxPrice

\* ------------------------------------------------------ program constants
Int32Max == 2147483647

Prices == 0 .. MaxPrice
Deltas == {0 - InitStock, 0 - 1, 1}
BookIDs == 1 .. 2           \* book 1 is in the catalog, book 2 is not
StoreUUIDs == 1 .. 3        \* stores 1 and 2 exist, store 3 does not
SkuUUIDs == 1 .. 2          \* SKU 1 exists at start, SKU 2 is the first created

NoRow == [uuid |-> 0, book |-> 0, store |-> 0, price |-> 0, stock |-> 0]
NoArgs == [book |-> 0, store |-> 0, uuid |-> 0, price |-> 0, stock |-> 0, delta |-> 0,
           isbn |-> 0, title |-> 0, description |-> 0, name |-> 0, address |-> 0]

VARIABLES
    db,          \* tables as the session sees them: [skus, stores, books]
    committed,   \* tables as of the last commit (what a rollback restores)
    txStatus,    \* transaction status of the session: "idle", "open", "failed"
    alive,       \* FALSE once pgx has closed the connection
    nextId,      \* id / uuid generator of the tables (not rolled back)
    pc,          \* per request: position in its handler
    op,          \* per request: the service method called
    arg,         \* per request: the call's parameters
    skuRow,      \* per request: stock_count read by GetSKUByUUID in AdjustSKUStock
    result,      \* per request: error returned by the service ("ok" for nil)
    ret,         \* per request: the repo.Sku returned
    late,        \* per request: started after a successful CreateSKU of its pair
    out          \* per request: the rows a books or stores call returned

vars == <<db, committed, txStatus, alive, nextId, pc, op, arg, skuRow, result, ret, late, out>>
session == <<db, committed, txStatus, alive, nextId>>

\* ------------------------------------------------------------- int32
Int32Min == 0 - Int32Max - 1

\* Go int32 addition: a + b wrapped around into Int32Min .. Int32Max
\* (written so that no intermediate value leaves that range).
Add32(a, b) ==
    IF a > 0 /\ b > 0 /\ a > Int32Max - b
        THEN (a - Int32Max - 1) + (b - Int32Max - 1)
    ELSE IF a < 0 /\ b < 0 /\ a < Int32Min - b
        THEN (a + Int32Max + 1) + (b + Int32Max + 1)
    ELSE a + b

\* ------------------------------------------------------- SQL statements
\* Each operator is one query of internal/database/queries, evaluated on
\* the tables d.

\* Mutant: GetBookByID without its deleted_at filter.
GetBookByID_AnyRow(d, id) == {b \in DOMAIN d.books : b = id}

\* GetBookByID: WHERE id = $1 AND deleted_at IS NULL
GetBookByID(d, id) == {b \in DOMAIN d.books : b = id /\ ~d.books[b].deleted}

\* Mutant: GetStoreByUUID without its deleted_at filter.
GetStoreByUUID_AnyRow(d, u) == {s \in DOMAIN d.stores : s = u}

\* GetStoreByUUID: WHERE uuid = $1 AND deleted_at IS NULL
GetStoreByUUID(d, u) == {s \in DOMAIN d.stores : s = u /\ ~d.stores[s].deleted}

\* GetSKUByBookAndStore: the non-deleted SKU of a (book, store) pair
GetSKUByBookAndStore(d, b, s) == {k \in d.skus : k.book = b /\ k.store = s}

\* Mutant: GetSKUByUUID joined with the non-deleted stores.
GetSKUByUUID_LiveStore(d, u) ==
    {k \in d.skus : /\ k.uuid = u
                    /\ \E st \in DOMAIN d.stores : st = k.store /\ ~d.stores[st].deleted}

\* GetSKUByUUID: skus JOIN books WHERE s.uuid = $1 (a plain SELECT, no lock)
GetSKUByUUID(d, u) == {k \in d.skus : k.uuid = u}

\* ListBookAvailability: skus JOIN stores ON s.store_id = st.id
\* WHERE s.book_id = $1 AND st.deleted_at IS NULL
ListBookAvailability(d, b) ==
    {k \in d.skus : /\ k.book = b
                    /\ \E st \in DOMAIN d.stores : st = k.store /\ ~d.stores[st].deleted}

\* Mutant: the skus table without its uniqueness constraint.
UniqueBookStore_Missing(d, b, s) == TRUE

\* UNIQUE (book_id, store_id) of CREATE TABLE skus
UniqueBookStore(d, b, s) == \A k \in d.skus : ~(k.book = b /\ k.store = s)

\* Mutant: the skus table without its stock_count constraint.
CheckStock_Missing(n) == TRUE

\* CHECK (stock_count >= 0) of CREATE TABLE skus
CheckStock(n) == n >= 0

\* CHECK (price_in_kopeks >= 0) of CREATE TABLE skus
CheckPrice(p) == p >= 0

\* INSERT INTO skus ... RETURNING *: the new row
NewSku(id, b, s, p, n) == [uuid |-> id, book |-> b, store |-> s, price |-> p, stock |-> n]

\* book_id REFERENCES books (id), store_id REFERENCES stores (id) of CREATE
\* TABLE skus: the parent rows exist (soft-deleted or not).
ForeignKeys(d, b, s) == b \in DOMAIN d.books /\ s \in DOMAIN d.stores

\* CreateSKU: "" when the row is accepted, else the constraint that rejects it
\* (CHECK on the new row, then the unique index, then the foreign keys).
CreateSKUError(d, b, s, p, n) ==
    IF ~(CheckPrice(p) /\ CheckStock(n)) THEN "err_check"
    ELSE IF ~UniqueBookStore(d, b, s) THEN "err_unique"
    ELSE IF ~ForeignKeys(d, b, s) THEN "err_foreign_key"
    ELSE ""

InsertSku(d, row) == [d EXCEPT !.skus = @ \cup {row}]

\* Mutant: the UPDATE adds the new price to the old one.
SetPrice_Add(d, u, p) ==
    [d EXCEPT !.skus = {IF k.uuid = u THEN [k EXCEPT !.price = @ + p] ELSE k : k \in @}]

\* UpdateSKUPrice: SET price_in_kopeks = $2 WHERE uuid = $1
SetPrice(d, u, p) ==
    [d EXCEPT !.skus = {IF k.uuid = u THEN [k EXCEPT !.price = p] ELSE k : k \in @}]

\* SoftDeleteStore: UPDATE stores SET deleted_at = now() WHERE uuid = $1
SoftDeleteStore(d, u) ==
    [d EXCEPT !.stores =
        [s \in DOMAIN @ |-> IF s = u THEN [@[s] EXCEPT !.deleted = TRUE] ELSE @[s]]]

\* A stores row as a query returns it.  A text column holds 0 for the empty
\* string.
StoreRow(d, u) ==
    [uuid |-> u, name |-> d.stores[u].name, address |-> d.stores[u].address]

\* CreateStore: INSERT INTO stores (name, address) VALUES ($1, $2); both
\* columns are NOT NULL and take the empty string.
InsertStore(d, u, n, a) ==
    [d EXCEPT !.stores =
        [s \in DOMAIN @ \cup {u} |->
            IF s = u THEN [name |-> n, address |-> a, deleted |-> FALSE] ELSE @[s]]]

\* ListStores: WHERE deleted_at IS NULL
ListStores(d) == {StoreRow(d, s) : s \in {t \in DOMAIN d.stores : ~d.stores[t].deleted}}

\* UpdateStore: SET name = $1, address = $2 WHERE uuid = $3 AND deleted_at IS NULL
SetStore(d, u, n, a) ==
    [d EXCEPT !.stores =
        [s \in DOMAIN @ |->
            IF s = u /\ ~@[s].deleted THEN [@[s] EXCEPT !.name = n, !.address = a]
            ELSE @[s]]]

\* A books row as a query returns it.  The title stands for title and author,
\* the description for description, page_count and publication_year; 0 is
\* NULL.
BookRow(d, b) ==
    [id |-> b, isbn |-> d.books[b].isbn, title |-> d.books[b].title,
     description |-> d.books[b].description]

\* UNIQUE (isbn) of CREATE TABLE books: the rows an insert conflicts with.
BookConflicts(d, i) == {b \in DOMAIN d.books : i # 0 /\ d.books[b].isbn = i}

\* CreateBook: INSERT INTO books ... ON CONFLICT (isbn) WHERE isbn IS NOT NULL
\* DO UPDATE SET title = EXCLUDED.title, author = EXCLUDED.author
UpsertBook(d, id, i, t, x) ==
    IF BookConflicts(d, i) = {}
        THEN [d EXCEPT !.books =
                 [b \in DOMAIN @ \cup {id} |->
                     IF b = id
                         THEN [isbn |-> i, title |-> t, description |-> x, deleted |-> FALSE]
                         ELSE @[b]]]
        ELSE [d EXCEPT !.books =
                 [b \in DOMAIN @ |->
                     IF b \in BookConflicts(d, i) THEN [@[b] EXCEPT !.title = t] ELSE @[b]]]

\* RETURNING * of CreateBook: the id of the row inserted or updated.
UpsertBookID(d, id, i) ==
    IF BookConflicts(d, i) = {} THEN id ELSE CHOOSE b \in BookConflicts(d, i) : TRUE

\* Mutant: the UPDATE overwrites the stock instead of incrementing it.
AddStock_Overwrite(d, u, delta) ==
    [d EXCEPT !.skus = {IF k.uuid = u THEN [k EXCEPT !.stock = delta] ELSE k : k \in @}]

\* AdjustSKUStock: SET stock_count = stock_count + change_by WHERE uuid = $1
AddStock(d, u, delta) ==
    [d EXCEPT !.skus = {IF k.uuid = u THEN [k EXCEPT !.stock = @ + delta] ELSE k : k \in @}]

\* AdjustSKUStock: "" when the updated row is accepted, else the error
AdjustSKUStockError(d, u, delta) ==
    LET rows == GetSKUByUUID(d, u) IN
    IF rows = {} THEN "err_no_rows"
    ELSE IF \E k \in rows : delta > 0 /\ k.stock > Int32Max - delta THEN "err_range"
    ELSE IF \E k \in rows : ~CheckStock(k.stock + delta) THEN "err_check"
    ELSE ""

\* Mutant: AdjustSKUStock without its check.
Insufficient_Never(stock, changeBy) == FALSE

\* Mutant: the check refuses to sell the last item.
Insufficient_OffByOne(stock, changeBy) == Add32(stock, changeBy) <= 0

\* skuRow.Sku.StockCount+changeBy < 0, in int32
Insufficient(stock, changeBy) == Add32(stock, changeBy) < 0

\* ------------------------------------------------------------ session
\* A statement outside a transaction block commits on its own.
Durable(d) == IF txStatus = "idle" THEN d ELSE committed

\* A server-side error inside a transaction block aborts the block.
AfterError == IF txStatus = "open" THEN "failed" ELSE txStatus

\* pgx closes the connection (Conn.die / Conn.Close); the server then
\* discards the open transaction.
Die ==
    /\ alive' = FALSE
    /\ db' = committed
    /\ committed' = committed
    /\ txStatus' = "idle"
    /\ nextId' = nextId

\* pgx closes the connection after the server has run a statement and before
\* its answer is read (the request's context is cancelled while it waits, or
\* a concurrent s.db.Begin fails on the busy connection and closes it).  d
\* and id are the tables and the generator as the statement leaves them:
\* outside a transaction block the server has stored d, inside one it
\* discards the block.
ClosedInFlight(d, id) ==
    /\ alive
    /\ alive' = FALSE
    /\ db' = Durable(d)
    /\ committed' = Durable(d)
    /\ txStatus' = "idle"
    /\ nextId' = id

\* ----------------------------------------------------------------- Init
InitDb ==
    [skus |-> {NewSku(1, 1, 1, 0, InitStock)},
     stores |-> [s \in 1 .. 2 |-> [deleted |-> FALSE]],
     books |-> [b \in {1} |-> [deleted |-> FALSE]]]

\* The state after main() has connected to a database holding the tables d
\* (id is the next value of the skus sequence), with n requests still to
\* arrive.
InitFrom(d, id, n) ==
    /\ db = d
    /\ committed = d
    /\ txStatus = "idle"
    /\ alive = TRUE
    /\ nextId = id
    /\ pc = [r \in 1 .. n |-> "new"]
    /\ op = [r \in 1 .. n |-> "none"]
    /\ arg = [r \in 1 .. n |-> NoArgs]
    /\ skuRow = [r \in 1 .. n |-> 0]
    /\ result = [r \in 1 .. n |-> "pending"]
    /\ ret = [r \in 1 .. n |-> NoRow]
    /\ late = [r \in 1 .. n |-> FALSE]
    /\ out = [r \in 1 .. n |-> {}]

InitWith(n) == InitFrom(InitDb, 2, n)

Reqs == DOMAIN pc

InFlight == {r \in Reqs : pc[r] \notin {"new", "done"}}

\* The request returns err (and the zero repo.Sku).
Fail(r, err) ==
    /\ pc' = [pc EXCEPT ![r] = "done"]
    /\ result' = [result EXCEPT ![r] = err]

\* The statement was not run: the request's context is done, the connection
\* is closed, or another goroutine is using the connection.
Unavailable(r) ==
    /\ Fail(r, "err_unavailable")
    /\ UNCHANGED <<session, op, arg, skuRow, ret, late, out>>

\* A statement sent while the transaction block is aborted (SQLSTATE 25P02).
Aborted(r) ==
    /\ alive /\ txStatus = "failed"
    /\ Fail(r, "err_tx_aborted")
    /\ UNCHANGED <<session, op, arg, skuRow, ret, late, out>>

\* The connection is closed under a statement the server has run (to d and
\* id): the request returns the error.
Closed(r, d, id) ==
    /\ Fail(r, "err_unavailable")
    /\ ClosedInFlight(d, id)
    /\ UNCHANGED <<op, arg, skuRow, ret, late, out>>

CanExec == alive /\ txStatus # "failed"


\* The request keeps running; only its position changes.
Goto(r, next) ==
    /\ pc' = [pc EXCEPT ![r] = next]
    /\ UNCHANGED result

\* ------------------------------------------------------------- requests
\* A request may start when the earlier ones have started (requests are
\* interchangeable) and fewer than MaxConc are being served.
CanStart(r) ==
    /\ pc[r] = "new"
    /\ \A q \in Reqs : q < r => pc[q] # "new"
    /\ Cardinality(InFlight) < MaxConc

\* h.validate.Struct(req) fails: the handler answers 400 and does not call
\* the service.
Reject(r) ==
    /\ pc' = [pc EXCEPT ![r] = "done"]
    /\ result' = [result EXCEPT ![r] = "InvalidInput"]

\* The request goes on to the service, at position next.
Accept(r, next) ==
    /\ pc' = [pc EXCEPT ![r] = next]
    /\ UNCHANGED result

\* Mutant: CreateSKURequest without its validate tags.
ValidCreateSKURequest_Any(b, s, p, n) == TRUE

\* CreateSKURequest: book_id required, store_uuid required (0 is uuid.Nil or
\* a missing field), price_in_kopeks gte=0, stock_count gte=0
ValidCreateSKURequest(b, s, p, n) == b # 0 /\ s # 0 /\ p >= 0 /\ n >= 0

\* Mutant: UpdateSKUPriceRequest without its validate tag.
ValidUpdateSKUPriceRequest_Any(p) == TRUE

\* UpdateSKUPriceRequest: new_price_in_kopeks gte=0
ValidUpdateSKUPriceRequest(p) == p >= 0

\* Handler.CreateSKU: POST /skus
StartCreateSKUWith(r, books, stores, prices, stocks) ==
    /\ CanStart(r)
    /\ \E b \in books, s \in stores, p \in prices, n \in stocks :
            /\ op' = [op EXCEPT ![r] = "CreateSKU"]
            /\ arg' = [arg EXCEPT ![r] = [NoArgs EXCEPT !.book = b, !.store = s,
                                                         !.price = p, !.stock = n]]
            /\ late' = [late EXCEPT ![r] =
                           \E q \in Reqs : /\ op[q] = "CreateSKU" /\ result[q] = "ok"
                                           /\ arg[q].book = b /\ arg[q].store = s]
            /\ IF ValidCreateSKURequest(b, s, p, n) THEN Accept(r, "book") ELSE Reject(r)
    /\ UNCHANGED <<session, skuRow, ret, out>>

\* POST /skus with stock_count = InitStock
StartCreateSKU(r, books, stores, prices) ==
    StartCreateSKUWith(r, books, stores, prices, {InitStock})

\* Handler.GetSKU: GET /skus/{skuUUID}
StartGetSKU(r, uuids) ==
    /\ CanStart(r)
    /\ \E u \in uuids :
            /\ op' = [op EXCEPT ![r] = "GetSKU"]
            /\ arg' = [arg EXCEPT ![r] = [NoArgs EXCEPT !.uuid = u]]
    /\ pc' = [pc EXCEPT ![r] = "get"]
    /\ UNCHANGED <<session, skuRow, result, ret, late, out>>

\* Handler.UpdateSKUPrice: PUT /skus/{skuUUID}/price
StartUpdateSKUPrice(r, uuids, prices) ==
    /\ CanStart(r)
    /\ \E u \in uuids, p \in prices :
            /\ op' = [op EXCEPT ![r] = "UpdateSKUPrice"]
            /\ arg' = [arg EXCEPT ![r] = [NoArgs EXCEPT !.uuid = u, !.price = p]]
            /\ IF ValidUpdateSKUPriceRequest(p) THEN Accept(r, "get") ELSE Reject(r)
    /\ UNCHANGED <<session, skuRow, ret, late, out>>

\* Handler.AdjustSKUStock: POST /skus/{skuUUID}/stock-adjustments
StartAdjustSKUStock(r, uuids, deltas) ==
    /\ CanStart(r)
    /\ \E u \in uuids, c \in deltas :
            /\ op' = [op EXCEPT ![r] = "AdjustSKUStock"]
            /\ arg' = [arg EXCEPT ![r] = [NoArgs EXCEPT !.uuid = u, !.delta = c]]
    /\ pc' = [pc EXCEPT ![r] = "begin"]
    /\ UNCHANGED <<session, skuRow, result, ret, late, out>>

\* Handler.GetBookAvailability: GET /books/{bookID}/availability
StartGetAvailability(r, books) ==
    /\ CanStart(r)
    /\ \E b \in books :
            /\ op' = [op EXCEPT ![r] = "GetAvailability"]
            /\ arg' = [arg EXCEPT ![r] = [NoArgs EXCEPT !.book = b]]
    /\ pc' = [pc EXCEPT ![r] = "availbook"]
    /\ UNCHANGED <<session, skuRow, result, ret, late, out>>

\* Handler.DeleteStore: DELETE /stores/{storeUUID}
StartDeleteStore(r, stores) ==
    /\ CanStart(r)
    /\ \E u \in stores :
            /\ op' = [op EXCEPT ![r] = "DeleteStore"]
            /\ arg' = [arg EXCEPT ![r] = [NoArgs EXCEPT !.store = u]]
    /\ pc' = [pc EXCEPT ![r] = "delete"]
    /\ UNCHANGED <<session, skuRow, result, ret, late, out>>

\* CreateStoreRequest / UpdateStoreRequest: name required, address required
ValidStoreRequest(n, a) == n # 0 /\ a # 0

\* Handler.CreateStore: POST /stores.  When h.validate.Struct(req) fails the
\* handler writes the 400 response and, having no return there, goes on to
\* call the service.
StartCreateStore(r, names, addresses) ==
    /\ CanStart(r)
    /\ \E n \in names, a \in addresses :
            /\ op' = [op EXCEPT ![r] = "CreateStore"]
            /\ arg' = [arg EXCEPT ![r] = [NoArgs EXCEPT !.name = n, !.address = a]]
            /\ result' = IF ValidStoreRequest(n, a) THEN result
                          ELSE [result EXCEPT ![r] = "InvalidInput"]
    /\ pc' = [pc EXCEPT ![r] = "createstore"]
    /\ UNCHANGED <<session, skuRow, ret, late, out>>

\* Handler.ListStores: GET /stores
StartListStores(r) ==
    /\ CanStart(r)
    /\ op' = [op EXCEPT ![r] = "ListStores"]
    /\ pc' = [pc EXCEPT ![r] = "liststores"]
    /\ UNCHANGED <<session, arg, skuRow, result, ret, late, out>>

\* Handler.GetStore: GET /stores/{storeUUID}
StartGetStore(r, stores) ==
    /\ CanStart(r)
    /\ \E u \in stores :
            /\ op' = [op EXCEPT ![r] = "GetStore"]
            /\ arg' = [arg EXCEPT ![r] = [NoArgs EXCEPT !.store = u]]
    /\ pc' = [pc EXCEPT ![r] = "getstore"]
    /\ UNCHANGED <<session, skuRow, result, ret, late, out>>

\* Handler.UpdateStore: PUT /stores/{storeUUID}
StartUpdateStore(r, stores, names, addresses) ==
    /\ CanStart(r)
    /\ \E u \in stores, n \in names, a \in addresses :
            /\ op' = [op EXCEPT ![r] = "UpdateStore"]
            /\ arg' = [arg EXCEPT ![r] = [NoArgs EXCEPT !.store = u, !.name = n,
                                                         !.address = a]]
            /\ IF ValidStoreRequest(n, a) THEN Accept(r, "updatestore") ELSE Reject(r)
    /\ UNCHANGED <<session, skuRow, ret, late, out>>

\* CreateBookRequest: isbn required (a pointer: not nil), title required,
\* author required
ValidCreateBookRequest(i, t) == i # 0 /\ t # 0

\* Handler.CreateBook: POST /books
StartCreateBook(r, isbns, titles, descriptions) ==
    /\ CanStart(r)
    /\ \E i \in isbns, t \in titles, x \in descriptions :
            /\ op' = [op EXCEPT ![r] = "CreateBook"]
            /\ arg' = [arg EXCEPT ![r] = [NoArgs EXCEPT !.isbn = i, !.title = t,
                                                         !.description = x]]
            /\ IF ValidCreateBookRequest(i, t) THEN Accept(r, "createbook") ELSE Reject(r)
    /\ UNCHANGED <<session, skuRow, ret, late, out>>

\* ------------------------------------------------------ service.CreateSKU
CreateSKU_GetBookByID(r) ==
    /\ pc[r] = "book"
    /\ \/ Unavailable(r)
       \/ Aborted(r)
       \/ /\ CanExec
          /\ IF GetBookByID(db, arg[r].book) = {}
                THEN Fail(r, "BookNotFound")
                ELSE Goto(r, "store")
          /\ UNCHANGED <<session, op, arg, skuRow, ret, late, out>>

CreateSKU_GetStoreByUUID(r) ==
    /\ pc[r] = "store"
    /\ \/ Unavailable(r)
       \/ Aborted(r)
       \/ /\ CanExec
          /\ IF GetStoreByUUID(db, arg[r].store) = {}
                THEN Fail(r, "StoreNotFound")
                ELSE Goto(r, "exists")
          /\ UNCHANGED <<session, op, arg, skuRow, ret, late, out>>

CreateSKU_GetSKUByBookAndStore(r) ==
    /\ pc[r] = "exists"
    /\ \/ Unavailable(r)
       \/ Aborted(r)
       \/ /\ CanExec
          /\ IF GetSKUByBookAndStore(db, arg[r].book, arg[r].store) # {}
                THEN Fail(r, "SKUAlreadyExists")
                ELSE Goto(r, "insert")
          /\ UNCHANGED <<session, op, arg, skuRow, ret, late, out>>

CreateSKU_Insert(r) ==
    /\ pc[r] = "insert"
    /\ \/ Unavailable(r)
       \/ /\ CanExec
          /\ CreateSKUError(db, arg[r].book, arg[r].store, arg[r].price, arg[r].stock) = ""
          /\ Closed(r, InsertSku(db, NewSku(nextId, arg[r].book, arg[r].store,
                                            arg[r].price, arg[r].stock)), nextId + 1)
       \/ Aborted(r)
       \/ /\ CanExec
          /\ LET a == arg[r]
                 e == CreateSKUError(db, a.book, a.store, a.price, a.stock)
                 row == NewSku(nextId, a.book, a.store, a.price, a.stock)
                 d == InsertSku(db, row)
             IN IF e # ""
                   THEN /\ Fail(r, e)
                        /\ txStatus' = AfterError
                        /\ UNCHANGED <<db, committed, nextId, ret>>
                   ELSE /\ Fail(r, "ok")
                        /\ db' = d
                        /\ committed' = Durable(d)
                        /\ nextId' = nextId + 1
                        /\ ret' = [ret EXCEPT ![r] = row]
                        /\ UNCHANGED txStatus
          /\ UNCHANGED <<alive, op, arg, skuRow, late, out>>

\* ------------------------------------- service.GetSKU / UpdateSKUPrice
\* GetSKU, called by the handler or as the first step of UpdateSKUPrice.
GetSKU(r) ==
    /\ pc[r] = "get"
    /\ \/ Unavailable(r)
       \/ Aborted(r)
       \/ /\ CanExec
          /\ LET rows == GetSKUByUUID(db, arg[r].uuid) IN
             IF rows = {}
                THEN Fail(r, "SKUNotFound") /\ UNCHANGED ret
                ELSE IF op[r] = "UpdateSKUPrice"
                        THEN Goto(r, "setprice") /\ UNCHANGED ret
                        ELSE /\ Fail(r, "ok")
                             /\ ret' = [ret EXCEPT ![r] = CHOOSE k \in rows : TRUE]
          /\ UNCHANGED <<session, op, arg, skuRow, late, out>>

UpdateSKUPrice(r) ==
    /\ pc[r] = "setprice"
    /\ \/ Unavailable(r)
       \/ /\ CanExec /\ CheckPrice(arg[r].price)
          /\ Closed(r, SetPrice(db, arg[r].uuid, arg[r].price), nextId)
       \/ Aborted(r)
       \/ /\ CanExec
          /\ LET a == arg[r]
                 d == SetPrice(db, a.uuid, a.price)
                 rows == GetSKUByUUID(d, a.uuid)
             IN IF rows = {}
                   THEN /\ Fail(r, "err_no_rows")
                        /\ UNCHANGED <<db, committed, txStatus, ret>>
                   ELSE IF ~CheckPrice(a.price)
                   THEN /\ Fail(r, "err_check")
                        /\ txStatus' = AfterError
                        /\ UNCHANGED <<db, committed, ret>>
                   ELSE /\ Fail(r, "ok")
                        /\ db' = d
                        /\ committed' = Durable(d)
                        /\ ret' = [ret EXCEPT ![r] = CHOOSE k \in rows : TRUE]
                        /\ UNCHANGED txStatus
          /\ UNCHANGED <<alive, nextId, op, arg, skuRow, late, out>>

\* --------------------------------------------------------- stores service
\* The handler writes a response: the first status written stands (net/http
\* ignores a later WriteHeader), the body is written in any case.
Respond(r, status) ==
    /\ pc' = [pc EXCEPT ![r] = "done"]
    /\ result' = [result EXCEPT ![r] = IF @ = "pending" THEN status ELSE @]

\* service.Create: s.repo.CreateStore
CreateStore(r) ==
    /\ pc[r] = "createstore"
    /\ \/ /\ Respond(r, "err_unavailable")
          /\ UNCHANGED <<session, out>>
       \/ /\ CanExec
          /\ Respond(r, "err_unavailable")
          /\ ClosedInFlight(InsertStore(db, nextId, arg[r].name, arg[r].address), nextId + 1)
          /\ UNCHANGED out
       \/ /\ alive /\ txStatus = "failed"
          /\ Respond(r, "err_tx_aborted")
          /\ UNCHANGED <<session, out>>
       \/ /\ CanExec
          /\ LET d == InsertStore(db, nextId, arg[r].name, arg[r].address) IN
             /\ Respond(r, "ok")
             /\ db' = d
             /\ committed' = Durable(d)
             /\ nextId' = nextId + 1
             /\ out' = [out EXCEPT ![r] = {StoreRow(d, nextId)}]
          /\ UNCHANGED <<txStatus, alive>>
    /\ UNCHANGED <<op, arg, skuRow, ret, late>>

\* service.List: s.repo.ListStores
StoresList(r) ==
    /\ pc[r] = "liststores"
    /\ \/ Unavailable(r)
       \/ Aborted(r)
       \/ /\ CanExec
          /\ Fail(r, "ok")
          /\ out' = [out EXCEPT ![r] = ListStores(db)]
          /\ UNCHANGED <<session, op, arg, skuRow, ret, late>>

\* service.GetByUUID: s.repo.GetStoreByUUID
GetStore(r) ==
    /\ pc[r] = "getstore"
    /\ \/ Unavailable(r)
       \/ Aborted(r)
       \/ /\ CanExec
          /\ IF GetStoreByUUID(db, arg[r].store) = {}
                THEN Fail(r, "StoreNotFound") /\ UNCHANGED out
                ELSE /\ Fail(r, "ok")
                     /\ out' = [out EXCEPT ![r] = {StoreRow(db, arg[r].store)}]
          /\ UNCHANGED <<session, op, arg, skuRow, ret, late>>

\* service.Update: s.repo.UpdateStore, pgx.ErrNoRows when no row matches
UpdateStore(r) ==
    /\ pc[r] = "updatestore"
    /\ \/ Unavailable(r)
       \/ /\ CanExec
          /\ Closed(r, SetStore(db, arg[r].store, arg[r].name, arg[r].address), nextId)
       \/ Aborted(r)
       \/ /\ CanExec
          /\ LET a == arg[r]
                 d == SetStore(db, a.store, a.name, a.address)
             IN IF GetStoreByUUID(db, a.store) = {}
                   THEN /\ Fail(r, "StoreNotFound")
                        /\ UNCHANGED <<db, committed, out>>
                   ELSE /\ Fail(r, "ok")
                        /\ db' = d
                        /\ committed' = Durable(d)
                        /\ out' = [out EXCEPT ![r] = {StoreRow(d, a.store)}]
          /\ UNCHANGED <<txStatus, alive, nextId, op, arg, skuRow, ret, late>>

\* ---------------------------------------------------- books service.Create
\* s.repo.CreateBook: the sequence of books.id advances also when the row
\* conflicts.
CreateBook(r) ==
    /\ pc[r] = "createbook"
    /\ \/ Unavailable(r)
       \/ /\ CanExec
          /\ Closed(r, UpsertBook(db, nextId, arg[r].isbn, arg[r].title,
                                  arg[r].description), nextId + 1)
       \/ Aborted(r)
       \/ /\ CanExec
          /\ LET a == arg[r]
                 d == UpsertBook(db, nextId, a.isbn, a.title, a.description)
                 b == UpsertBookID(db, nextId, a.isbn)
             IN /\ Fail(r, "ok")
                /\ db' = d
                /\ committed' = Durable(d)
                /\ nextId' = nextId + 1
                /\ out' = [out EXCEPT ![r] = {BookRow(d, b)}]
          /\ UNCHANGED <<txStatus, alive, op, arg, skuRow, ret, late>>

\* ------------------------------------------------- stores service.Delete
\* s.repo.SoftDeleteStore: an :exec statement, no error when no row matches.
DeleteStore(r) ==
    /\ pc[r] = "delete"
    /\ \/ Unavailable(r)
       \/ /\ CanExec
          /\ Closed(r, SoftDeleteStore(db, arg[r].store), nextId)
       \/ Aborted(r)
       \/ /\ CanExec
          /\ LET d == SoftDeleteStore(db, arg[r].store) IN
             /\ Fail(r, "ok")
             /\ db' = d
             /\ committed' = Durable(d)
          /\ UNCHANGED <<txStatus, alive, nextId, op, arg, skuRow, ret, late, out>>

\* ------------------------------------------- books service.GetAvailability
\* s.GetByID: the book must exist and not be soft-deleted.
GetAvailability_GetByID(r) ==
    /\ pc[r] = "availbook"
    /\ \/ Unavailable(r)
       \/ Aborted(r)
       \/ /\ CanExec
          /\ IF GetBookByID(db, arg[r].book) = {}
                THEN Fail(r, "BookNotFound")
                ELSE Goto(r, "availlist")
          /\ UNCHANGED <<session, op, arg, skuRow, ret, late, out>>

\* s.repo.ListBookAvailability: a :many query, an empty list when no row
\* matches.
GetAvailability_ListBookAvailability(r) ==
    /\ pc[r] = "availlist"
    /\ \/ Unavailable(r)
       \/ Aborted(r)
       \/ /\ CanExec
          /\ Fail(r, "ok")
          /\ out' = [out EXCEPT ![r] = ListBookAvailability(db, arg[r].book)]
          /\ UNCHANGED <<session, op, arg, skuRow, ret, late>>

\* ------------------------------------------------ service.AdjustSKUStock
\* An error after Begin returns through the deferred tx.Rollback.
FailTx(r, err) ==
    /\ pc' = [pc EXCEPT ![r] = "rollback"]
    /\ result' = [result EXCEPT ![r] = err]

\* tx, err := s.db.Begin(ctx): a failed begin closes the connection.
AdjustSKUStock_Begin(r) ==
    /\ pc[r] = "begin"
    /\ \/ /\ Fail(r, "err_unavailable")
          /\ Die
       \/ /\ alive /\ txStatus = "failed"
          /\ Fail(r, "err_tx_aborted")
          /\ Die
       \/ /\ CanExec
          /\ Goto(r, "read")
          /\ txStatus' = "open"
          /\ UNCHANGED <<db, committed, alive, nextId>>
    /\ UNCHANGED <<op, arg, skuRow, ret, late, out>>

\* qtx.GetSKUByUUID and the check skuRow.Sku.StockCount+changeBy < 0
AdjustSKUStock_GetSKUByUUID(r) ==
    /\ pc[r] = "read"
    /\ \/ FailTx(r, "err_unavailable") /\ UNCHANGED <<session, skuRow>>
       \/ /\ alive /\ txStatus = "failed"
          /\ FailTx(r, "err_tx_aborted") /\ UNCHANGED <<session, skuRow>>
       \/ /\ CanExec
          /\ UNCHANGED session
          /\ LET rows == GetSKUByUUID(db, arg[r].uuid) IN
             IF rows = {}
                THEN FailTx(r, "SKUNotFound") /\ UNCHANGED skuRow
                ELSE LET k == CHOOSE k \in rows : TRUE IN
                     /\ skuRow' = [skuRow EXCEPT ![r] = k.stock]
                     /\ IF Insufficient(k.stock, arg[r].delta)
                           THEN FailTx(r, "InsufficientStock")
                           ELSE Goto(r, "update")
    /\ UNCHANGED <<op, arg, ret, late, out>>

\* qtx.AdjustSKUStock
AdjustSKUStock_Update(r) ==
    /\ pc[r] = "update"
    /\ \/ FailTx(r, "err_unavailable") /\ UNCHANGED <<session, ret>>
       \/ /\ CanExec
          /\ AdjustSKUStockError(db, arg[r].uuid, arg[r].delta) = ""
          /\ FailTx(r, "err_unavailable")
          /\ ClosedInFlight(AddStock(db, arg[r].uuid, arg[r].delta), nextId)
          /\ UNCHANGED ret
       \/ /\ alive /\ txStatus = "failed"
          /\ FailTx(r, "err_tx_aborted") /\ UNCHANGED <<session, ret>>
       \/ /\ CanExec
          /\ LET a == arg[r]
                 e == AdjustSKUStockError(db, a.uuid, a.delta)
                 d == AddStock(db, a.uuid, a.delta)
             IN IF e # ""
                   THEN /\ FailTx(r, e)
                        /\ txStatus' = IF e = "err_no_rows" THEN txStatus ELSE AfterError
                        /\ UNCHANGED <<db, committed, ret>>
                   ELSE /\ Goto(r, "commit")
                        /\ db' = d
                        /\ committed' = Durable(d)
                        /\ ret' = [ret EXCEPT ![r] = CHOOSE k \in GetSKUByUUID(d, a.uuid) : TRUE]
                        /\ UNCHANGED txStatus
          /\ UNCHANGED <<alive, nextId>>
    /\ UNCHANGED <<op, arg, skuRow, late, out>>

\* return updatedSKU, tx.Commit(ctx); the deferred Rollback then finds the
\* tx closed and does nothing.  A commit that fails closes the connection
\* when the block is still open; the connection can also be closed after the
\* server has committed and before the answer is read.
AdjustSKUStock_Commit(r) ==
    /\ pc[r] = "commit"
    /\ \/ /\ Fail(r, "err_unavailable")
          /\ IF txStatus # "idle" THEN Die ELSE UNCHANGED session
       \/ /\ alive /\ txStatus = "open"
          /\ Fail(r, "err_unavailable")
          /\ committed' = db
          /\ txStatus' = "idle"
          /\ alive' = FALSE
          /\ UNCHANGED <<db, nextId>>
       \/ /\ alive /\ txStatus = "failed"
          /\ Fail(r, "err_commit_rollback")
          /\ db' = committed
          /\ txStatus' = "idle"
          /\ UNCHANGED <<committed, alive, nextId>>
       \/ /\ CanExec
          /\ Fail(r, "ok")
          /\ committed' = db
          /\ txStatus' = "idle"
          /\ UNCHANGED <<db, alive, nextId>>
    /\ UNCHANGED <<op, arg, skuRow, ret, late, out>>

\* Mutant: AdjustSKUStock without its deferred Rollback.
AdjustSKUStock_NoRollback(r) ==
    /\ pc[r] = "rollback"
    /\ pc' = [pc EXCEPT ![r] = "done"]
    /\ UNCHANGED <<session, op, arg, skuRow, result, ret, late, out>>

\* defer tx.Rollback(ctx): a failed rollback closes the connection.
AdjustSKUStock_Rollback(r) ==
    /\ pc[r] = "rollback"
    /\ pc' = [pc EXCEPT ![r] = "done"]
    /\ \/ Die
       \/ /\ alive
          /\ db' = committed
          /\ txStatus' = "idle"
          /\ UNCHANGED <<committed, alive, nextId>>
    /\ UNCHANGED <<op, arg, skuRow, result, ret, late, out>>

\* Any mix of the four /skus requests.
Init == InitWith(NumReq)

Next ==
    \E r \in Reqs :
        \/ StartCreateSKU(r, BookIDs, StoreUUIDs, Prices)
        \/ StartGetSKU(r, SkuUUIDs)
        \/ StartUpdateSKUPrice(r, SkuUUIDs, Prices)
        \/ StartAdjustSKUStock(r, SkuUUIDs, Deltas)
        \/ CreateSKU_GetBookByID(r)
        \/ CreateSKU_GetStoreByUUID(r)
        \/ CreateSKU_GetSKUByBookAndStore(r)
        \/ CreateSKU_Insert(r)
        \/ GetSKU(r)
        \/ UpdateSKUPrice(r)
        \/ AdjustSKUStock_Begin(r)
        \/ AdjustSKUStock_GetSKUByUUID(r)
        \/ AdjustSKUStock_Update(r)
        \/ AdjustSKUStock_Commit(r)
        \/ AdjustSKUStock_Rollback(r)

Spec == Init /\ [][Next]_vars

\* Stock adjustments of the SKU present at start: NumSkuReq requests, MaxConc
\* of them at a time.
InitAdjust == InitWith(NumSkuReq)

NextAdjust ==
    \E r \in Reqs :
        \/ StartAdjustSKUStock(r, {1}, Deltas)
        \/ AdjustSKUStock_Begin(r)
        \/ AdjustSKUStock_GetSKUByUUID(r)
        \/ AdjustSKUStock_Update(r)
        \/ AdjustSKUStock_Commit(r)
        \/ AdjustSKUStock_Rollback(r)

SpecAdjust == InitAdjust /\ [][NextAdjust]_vars

\* Creations of the SKU of book 1 in store 2 and sales of one copy of it:
\* NumSkuReq requests, MaxConc of them at a time.
InitSku == InitWith(NumSkuReq)

NextSku ==
    \E r \in Reqs :
        \/ StartCreateSKU(r, {1}, {2}, {0})
        \/ StartAdjustSKUStock(r, {2}, {0 - 1})
        \/ CreateSKU_GetBookByID(r)
        \/ CreateSKU_GetStoreByUUID(r)
        \/ CreateSKU_GetSKUByBookAndStore(r)
        \/ CreateSKU_Insert(r)
        \/ AdjustSKUStock_Begin(r)
        \/ AdjustSKUStock_GetSKUByUUID(r)
        \/ AdjustSKUStock_Update(r)
        \/ AdjustSKUStock_Commit(r)
        \/ AdjustSKUStock_Rollback(r)

SpecSku == InitSku /\ [][NextSku]_vars

\* Stock adjustments of two SKUs (book 1 in store 1, book 1 in store 2),
\* both holding InitStock copies: NumReq requests, MaxConc of them at a time.
PairDeltas == Deltas \cup {0 - InitStock - 1}

InitDbPair == [InitDb EXCEPT !.skus = @ \cup {NewSku(2, 1, 2, 0, InitStock)}]

InitPairWith(n) == InitFrom(InitDbPair, 3, n)

InitPair == InitPairWith(NumReq)

NextPair ==
    \E r \in Reqs :
        \/ StartAdjustSKUStock(r, SkuUUIDs, PairDeltas)
        \/ AdjustSKUStock_Begin(r)
        \/ AdjustSKUStock_GetSKUByUUID(r)
        \/ AdjustSKUStock_Update(r)
        \/ AdjustSKUStock_Commit(r)
        \/ AdjustSKUStock_Rollback(r)

SpecPair == InitPair /\ [][NextPair]_vars

\* Three stock adjustments one after the other, none overlapping another:
\* d1 and then d2 on SKU 1, and d1 + d2 on SKU 2, which starts with the same
\* stock.
AssocDeltas == (0 - InitStock - 1) .. 1

InitAssoc == InitPairWith(3)

NextAssoc ==
    \E r \in Reqs :
        \/ r < 3 /\ InFlight = {} /\ StartAdjustSKUStock(r, {1}, AssocDeltas)
        \/ r = 3 /\ InFlight = {}
                 /\ StartAdjustSKUStock(r, {2}, {arg[1].delta + arg[2].delta})
        \/ AdjustSKUStock_Begin(r)
        \/ AdjustSKUStock_GetSKUByUUID(r)
        \/ AdjustSKUStock_Update(r)
        \/ AdjustSKUStock_Commit(r)
        \/ AdjustSKUStock_Rollback(r)

SpecAssoc == InitAssoc /\ [][NextAssoc]_vars

\* SKU creations and store deletions on a catalog with a soft-deleted book:
\* NumReq requests, MaxConc of them at a time.
CatalogBookIDs == 1 .. 3    \* book 1 is live, book 2 is absent, book 3 is soft-deleted

InitDbCatalog == [InitDb EXCEPT !.books = [b \in {1, 3} |-> [deleted |-> b = 3]]]

InitCatalog == InitFrom(InitDbCatalog, 2, NumReq)

NextCatalog ==
    \E r \in Reqs :
        \/ StartCreateSKU(r, CatalogBookIDs, StoreUUIDs, {0})
        \/ StartDeleteStore(r, StoreUUIDs)
        \/ CreateSKU_GetBookByID(r)
        \/ CreateSKU_GetStoreByUUID(r)
        \/ CreateSKU_GetSKUByBookAndStore(r)
        \/ CreateSKU_Insert(r)
        \/ DeleteStore(r)

SpecCatalog == InitCatalog /\ [][NextCatalog]_vars

\* Price updates and stock adjustments of SKU 1 while SKU 2 exists: NumReq
\* requests, MaxConc of them at a time.
InitPrice == InitPairWith(NumReq)

NextPrice ==
    \E r \in Reqs :
        \/ StartUpdateSKUPrice(r, {1}, Prices)
        \/ StartAdjustSKUStock(r, {1}, PairDeltas)
        \/ GetSKU(r)
        \/ UpdateSKUPrice(r)
        \/ AdjustSKUStock_Begin(r)
        \/ AdjustSKUStock_GetSKUByUUID(r)
        \/ AdjustSKUStock_Update(r)
        \/ AdjustSKUStock_Commit(r)
        \/ AdjustSKUStock_Rollback(r)

SpecPrice == InitPrice /\ [][NextPrice]_vars

\* SKU creations and price updates with request bodies of any sign: NumReq
\* requests, MaxConc of them at a time.
InputPrices == (0 - 1) .. MaxPrice

InputStocks == {0 - 1, 0, InitStock}

InputStores == {0, 2}       \* 0 is uuid.Nil or a missing store_uuid

InitInput == InitWith(NumReq)

NextInput ==
    \E r \in Reqs :
        \/ StartCreateSKUWith(r, {1}, InputStores, InputPrices, InputStocks)
        \/ StartUpdateSKUPrice(r, SkuUUIDs, InputPrices)
        \/ CreateSKU_GetBookByID(r)
        \/ CreateSKU_GetStoreByUUID(r)
        \/ CreateSKU_GetSKUByBookAndStore(r)
        \/ CreateSKU_Insert(r)
        \/ GetSKU(r)
        \/ UpdateSKUPrice(r)

SpecInput == InitInput /\ [][NextInput]_vars

\* Availability queries, store deletions and sales on a catalog in which
\* book 1 is sold by both stores, book 2 by store 1, the soft-deleted book 3
\* by store 2, book 4 by none, and book 5 does not exist: NumReq requests,
\* MaxConc of them at a time.
AvailBookIDs == 1 .. 5

InitDbAvail ==
    [skus |-> {NewSku(1, 1, 1, 0, InitStock), NewSku(2, 1, 2, 0, InitStock),
               NewSku(3, 2, 1, 0, InitStock), NewSku(4, 3, 2, 0, InitStock)},
     stores |-> [s \in 1 .. 2 |-> [deleted |-> FALSE]],
     books |-> [b \in 1 .. 4 |-> [deleted |-> b = 3]]]

InitAvail == InitFrom(InitDbAvail, 5, NumReq)

NextAvail ==
    \E r \in Reqs :
        \/ StartGetAvailability(r, AvailBookIDs)
        \/ StartDeleteStore(r, StoreUUIDs)
        \/ StartAdjustSKUStock(r, {1}, Deltas)
        \/ GetAvailability_GetByID(r)
        \/ GetAvailability_ListBookAvailability(r)
        \/ DeleteStore(r)
        \/ AdjustSKUStock_Begin(r)
        \/ AdjustSKUStock_GetSKUByUUID(r)
        \/ AdjustSKUStock_Update(r)
        \/ AdjustSKUStock_Commit(r)
        \/ AdjustSKUStock_Rollback(r)

SpecAvail == InitAvail /\ [][NextAvail]_vars

\* One price update or stock adjustment three times, one call after the
\* other, none overlapping another: twice on SKU 1 and once on SKU 2, which
\* starts with the same price and stock.
InitIdem == InitPairWith(3)

StartSame(r, u) ==
    IF op[1] = "UpdateSKUPrice"
        THEN StartUpdateSKUPrice(r, {u}, {arg[1].price})
        ELSE StartAdjustSKUStock(r, {u}, {arg[1].delta})

NextIdem ==
    \E r \in Reqs :
        \/ r = 1 /\ StartUpdateSKUPrice(r, {1}, Prices)
        \/ r = 1 /\ StartAdjustSKUStock(r, {1}, AssocDeltas)
        \/ r = 2 /\ InFlight = {} /\ StartSame(r, 1)
        \/ r = 3 /\ InFlight = {} /\ StartSame(r, 2)
        \/ GetSKU(r)
        \/ UpdateSKUPrice(r)
        \/ AdjustSKUStock_Begin(r)
        \/ AdjustSKUStock_GetSKUByUUID(r)
        \/ AdjustSKUStock_Update(r)
        \/ AdjustSKUStock_Commit(r)
        \/ AdjustSKUStock_Rollback(r)

SpecIdem == InitIdem /\ [][NextIdem]_vars

\* Any mix of the engine's operations and store deletions: NumReq requests,
\* MaxConc of them at a time.
InitEngine == InitWith(NumReq)

NextEngine ==
    \/ Next
    \/ \E r \in Reqs :
        \/ StartGetAvailability(r, BookIDs)
        \/ StartDeleteStore(r, StoreUUIDs)
        \/ GetAvailability_GetByID(r)
        \/ GetAvailability_ListBookAvailability(r)
        \/ DeleteStore(r)

SpecEngine == InitEngine /\ [][NextEngine]_vars

\* The scenario of the specification, one call after the other on the
\* database the migration leaves (two stores, no book, no SKU): create store S1, create book B1, CreateSKU(B1, S1, 500, 10),
\* AdjustStock(-3), AdjustStock(-100), UpdatePrice(450), and CreateSKU(B1, S1)
\* again with any price and stock.
Scenario ==
    [price |-> 500, stock |-> 10, sale |-> 0 - 3, oversale |-> 0 - 100, newPrice |-> 450]

SeedDb ==
    [skus |-> {},
     stores |-> [s \in 1 .. 2 |-> [name |-> 1, address |-> s, deleted |-> FALSE]],
     books |-> <<>>]

InitScenario == InitFrom(SeedDb, 3, 7)

NextScenario ==
    \E r \in Reqs :
        \/ r = 1 /\ StartCreateStore(r, {1}, {1})
        \/ r = 2 /\ InFlight = {} /\ StartCreateBook(r, {1}, {1}, {0})
        \/ r = 3 /\ InFlight = {}
                 /\ \E st \in out[1], bk \in out[2] :
                        StartCreateSKUWith(r, {bk.id}, {st.uuid},
                                           {Scenario.price}, {Scenario.stock})
        \/ r = 4 /\ InFlight = {}
                 /\ StartAdjustSKUStock(r, {ret[3].uuid}, {Scenario.sale})
        \/ r = 5 /\ InFlight = {}
                 /\ StartAdjustSKUStock(r, {ret[3].uuid}, {Scenario.oversale})
        \/ r = 6 /\ InFlight = {}
                 /\ StartUpdateSKUPrice(r, {ret[3].uuid}, {Scenario.newPrice})
        \/ r = 7 /\ InFlight = {}
                 /\ StartCreateSKUWith(r, {arg[3].book}, {arg[3].store}, Prices, {0, InitStock})
        \/ CreateStore(r)
        \/ CreateBook(r)
        \/ CreateSKU_GetBookByID(r)
        \/ CreateSKU_GetStoreByUUID(r)
        \/ CreateSKU_GetSKUByBookAndStore(r)
        \/ CreateSKU_Insert(r)
        \/ GetSKU(r)
        \/ UpdateSKUPrice(r)
        \/ AdjustSKUStock_Begin(r)
        \/ AdjustSKUStock_GetSKUByUUID(r)
        \/ AdjustSKUStock_Update(r)
        \/ AdjustSKUStock_Commit(r)
        \/ AdjustSKUStock_Rollback(r)

SpecScenario == InitScenario /\ [][NextScenario]_vars

\* Book creations on the database the migration leaves, with ISBNs, titles
\* and descriptions that repeat and differ (0 is a missing field): NumReq
\* requests, MaxConc of them at a time.
BookISBNs == 0 .. 2

BookTitles == 0 .. 2

BookDescriptions == 0 .. 1

InitBook == InitFrom(SeedDb, 3, NumReq)

NextBook ==
    \E r \in Reqs :
        \/ StartCreateBook(r, BookISBNs, BookTitles, BookDescriptions)
        \/ CreateBook(r)

SpecBook == InitBook /\ [][NextBook]_vars

\* Stock adjustments at the ends of the int32 range: SKU 1 starts with a
\* stock of EdgeStocks, each request changes it by a delta of EdgeDeltas;
\* NumReq requests, MaxConc of them at a time.
EdgeStocks == {0, 1, Int32Max - 1, Int32Max}

EdgeDeltas == {Int32Min, 0 - 1, 0, 1, Int32Max}

InitRange ==
    \E n \in EdgeStocks :
        InitFrom([InitDb EXCEPT !.skus = {NewSku(1, 1, 1, 0, n)}], 2, NumReq)

NextRange ==
    \E r \in Reqs :
        \/ StartAdjustSKUStock(r, {1}, EdgeDeltas)
        \/ AdjustSKUStock_Begin(r)
        \/ AdjustSKUStock_GetSKUByUUID(r)
        \/ AdjustSKUStock_Update(r)
        \/ AdjustSKUStock_Commit(r)
        \/ AdjustSKUStock_Rollback(r)

SpecRange == InitRange /\ [][NextRange]_vars

\* Any mix of the /stores requests, SKU creations for book 1 and sales of
\* SKU 1 (book 1 in store 1), with store requests whose name or address is
\* missing: NumSkuReq requests, MaxConc of them at a time.  UUID 3 is unknown
\* until a store is created, which then has it (a SKU creation that finds it
\* meets the foreign key of skus when the store's insertion is rolled back
\* before the SKU's INSERT); the deletions are those of the two stores
\* present at start.
StoreNames == {0, 2}

StoreAddresses == 0 .. 1

InitDbStore ==
    [SeedDb EXCEPT
        !.skus = {NewSku(1, 1, 1, 0, InitStock)},
        !.books = [b \in {1} |-> [isbn |-> 1, title |-> 1, description |-> 0,
                                  deleted |-> FALSE]]]

InitStore == InitFrom(InitDbStore, 3, NumSkuReq)

NextStore ==
    \E r \in Reqs :
        \/ StartCreateStore(r, StoreNames, StoreAddresses)
        \/ StartListStores(r)
        \/ StartGetStore(r, StoreUUIDs)
        \/ StartUpdateStore(r, StoreUUIDs, StoreNames, StoreAddresses)
        \/ StartDeleteStore(r, 1 .. 2)
        \/ StartCreateSKU(r, {1}, StoreUUIDs, {0})
        \/ StartAdjustSKUStock(r, {1}, PairDeltas)
        \/ CreateStore(r)
        \/ StoresList(r)
        \/ GetStore(r)
        \/ UpdateStore(r)
        \/ DeleteStore(r)
        \/ CreateSKU_GetBookByID(r)
        \/ CreateSKU_GetStoreByUUID(r)
        \/ CreateSKU_GetSKUByBookAndStore(r)
        \/ CreateSKU_Insert(r)
        \/ AdjustSKUStock_Begin(r)
        \/ AdjustSKUStock_GetSKUByUUID(r)
        \/ AdjustSKUStock_Update(r)
        \/ AdjustSKUStock_Commit(r)
        \/ AdjustSKUStock_Rollback(r)

SpecStore == InitStore /\ [][NextStore]_vars

\* The store of SKU 1 is soft-deleted, and then the SKU is read, repriced and
\* restocked or sold: NumSkuReq requests, MaxConc of them at a time, those on
\* the SKU starting once the store is deleted.
InitOrphan == InitWith(NumSkuReq)

NextOrphan ==
    \E r \in Reqs :
        \/ StartDeleteStore(r, {1})
        \/ GetStoreByUUID(db, 1) = {} /\ StartGetSKU(r, {1})
        \/ GetStoreByUUID(db, 1) = {} /\ StartUpdateSKUPrice(r, {1}, Prices)
        \/ GetStoreByUUID(db, 1) = {} /\ StartAdjustSKUStock(r, {1}, Deltas)
        \/ DeleteStore(r)
        \/ GetSKU(r)
        \/ UpdateSKUPrice(r)
        \/ AdjustSKUStock_Begin(r)
        \/ AdjustSKUStock_GetSKUByUUID(r)
        \/ AdjustSKUStock_Update(r)
        \/ AdjustSKUStock_Commit(r)
        \/ AdjustSKUStock_Rollback(r)

SpecOrphan == InitOrphan /\ [][NextOrphan]_vars

\* ------------------------------------------------------------ helpers
Adjusts(u) == {r \in Reqs : op[r] = "AdjustSKUStock" /\ arg[r].uuid = u}

Done == {r \in Reqs : pc[r] = "done"}

Quiescent == InFlight = {}

RECURSIVE SumDelta(_)
SumDelta(S) ==
    IF S = {} THEN 0
    ELSE LET r == CHOOSE x \in S : TRUE IN arg[r].delta + SumDelta(S \ {r})

Stocks(d, u) == {k.stock : k \in GetSKUByUUID(d, u)}

\* ------------------------------------------------------------------ C1
\* C1: under any interleaving of CreateSKU, UpdateSKUPrice, GetSKU and
\* AdjustSKUStock calls, no SKU has a negative stock_count: not in the
\* tables the session sees, not in the committed tables, not in a row read
\* inside AdjustSKUStock and not in a row returned to a caller.
C1_StockNeverNegative ==
    /\ \A k \in db.skus : k.stock >= 0
    /\ \A k \in committed.skus : k.stock >= 0
    /\ \A r \in Reqs : skuRow[r] >= 0 /\ ret[r].stock >= 0

\* Two adjustments of one SKU both passed their check on the same stock, and
\* the second write was stopped by CHECK (stock_count >= 0).
C1_Witness ==
    \E r, q \in Adjusts(1) :
        /\ r # q /\ skuRow[r] = skuRow[q]
        /\ result[r] = "ok" /\ result[q] = "err_check"

\* ------------------------------------------------------------------ C2
\* C2: concurrent AdjustSKUStock calls on one SKU serialize: the stock a call
\* has checked is still the stock of the row when the call writes, and a
\* call whose delta would drive the stock negative never ends with another
\* error than InsufficientStock (here: the CHECK constraint's error).
C2_AdjustmentsSerialize ==
    \A r \in Reqs : op[r] = "AdjustSKUStock" =>
        /\ pc[r] = "update" => Stocks(db, arg[r].uuid) \subseteq {skuRow[r]}
        /\ result[r] # "err_check"

\* ------------------------------------------------------------------ C3
\* The adjustments launched so far are all on SKU u, all have returned, none
\* with a storage failure, and their deltas sum to minus the stock the SKU
\* had before them.
C3_Launched(u) ==
    /\ Quiescent
    /\ Done # {}
    /\ Done = Adjusts(u)
    /\ SumDelta(Done) = 0 - InitStock
    /\ \A r \in Done : result[r] # "err_unavailable"

C3_NoNegativeSeen == \A r \in Reqs : skuRow[r] >= 0 /\ ret[r].stock >= 0

\* C3 as claimed: adjustments of one SKU whose deltas sum to minus its stock
\* leave the stock at 0 in every interleaving, and none reads or returns a
\* negative stock.
C3_SumToMinusStockLeavesZero ==
    C3_Launched(1) =>
        /\ Stocks(db, 1) = {0} /\ Stocks(committed, 1) = {0}
        /\ C3_NoNegativeSeen

\* C3 as amended: the same, for deltas that are all <= 0.
C3_ConsumptionsLeaveZero ==
    (C3_Launched(1) /\ \A r \in Done : arg[r].delta <= 0) =>
        /\ Stocks(db, 1) = {0} /\ Stocks(committed, 1) = {0}
        /\ C3_NoNegativeSeen

\* Two sales overlapped (each read the full stock before the other wrote)
\* and together sold exactly the stock.
C3_Witness ==
    /\ C3_Launched(1)
    /\ \E r, q \in Done :
        /\ r # q /\ arg[r].delta < 0 /\ arg[q].delta < 0
        /\ skuRow[r] = InitStock /\ skuRow[q] = InitStock
        /\ result[r] = "ok" /\ result[q] = "ok"
    /\ Stocks(committed, 1) = {0}

\* ------------------------------------------------------------------ C4
\* C4: no lost update: once all calls have returned, the committed stock of
\* every SKU is its initial stock plus the deltas of exactly the
\* AdjustSKUStock calls on it that returned success, also in the runs in
\* which every call reached the database.  (Every SKU of the model starts
\* with InitStock.)
C4_NoLostUpdate ==
    (Quiescent /\ \A r \in Reqs : result[r] # "err_unavailable") =>
        \A k \in committed.skus :
            k.stock = InitStock + SumDelta({r \in Adjusts(k.uuid) : result[r] = "ok"})

\* ------------------------------------------------------------------ C5
\* C5: at most one SKU exists for a (book, store) pair, in the tables the
\* session sees and in the committed tables, also after concurrent CreateSKU
\* calls for the same pair.
C5_OneSkuPerBookStore ==
    \A d \in {db, committed} :
        \A k1, k2 \in d.skus :
            (k1.book = k2.book /\ k1.store = k2.store) => k1 = k2

\* Two CreateSKU calls for one pair both passed the existence pre-check; one
\* inserted, the other was stopped by UNIQUE (book_id, store_id).
C5_Witness ==
    \E r, q \in Reqs :
        /\ op[r] = "CreateSKU" /\ op[q] = "CreateSKU"
        /\ arg[r].book = arg[q].book /\ arg[r].store = arg[q].store
        /\ result[r] = "ok" /\ result[q] = "err_unique"

\* ------------------------------------------------------------------ C6
\* C6: a CreateSKU whose insert is rejected by the uniqueness constraint
\* returns SKUAlreadyExists: it never returns the constraint's own error.
C6_UniqueViolationIsAlreadyExists ==
    \A r \in Reqs : op[r] = "CreateSKU" => result[r] # "err_unique"

\* ------------------------------------------------------------------ C7
\* C7: a CreateSKU that starts after a CreateSKU of the same (book, store)
\* pair has returned success fails with SKUAlreadyExists, also in the runs
\* in which every call reached the database.
C7_SecondCreateRejected ==
    (\A q \in Reqs : result[q] # "err_unavailable") =>
        \A r \in Reqs :
            (op[r] = "CreateSKU" /\ late[r] /\ pc[r] = "done") =>
                result[r] = "SKUAlreadyExists"

\* ------------------------------------------------------------------ C8
\* C8: an AdjustSKUStock that reads a stock with stock + delta < 0 returns
\* InsufficientStock, writes nothing, and leaves the stock as it was: its
\* check never lets such a delta through to the UPDATE, the call returns no
\* row, and as long as the connection lives no step of a call that ends with
\* InsufficientStock changes the stock of a SKU, neither the stock the
\* session shows to every reader nor the committed one.
C8_Step ==
    \A r \in Reqs : op[r] = "AdjustSKUStock" =>
        /\ (pc[r] = "read" /\ pc'[r] = "update") =>
               \A k \in GetSKUByUUID(db, arg[r].uuid) : k.stock + arg[r].delta >= 0
        /\ (pc[r] = "read" /\ result'[r] = "InsufficientStock") =>
               skuRow'[r] + arg[r].delta < 0
        /\ (result'[r] = "InsufficientStock" /\ pc'[r] # pc[r] /\ alive') =>
               /\ pc'[r] \in {"rollback", "done"}
               /\ ret'[r] = NoRow
               /\ committed' = committed
               /\ \A u \in SkuUUIDs : Stocks(db', u) = Stocks(db, u)

C8_InsufficientStockWritesNothing == [][C8_Step]_vars

\* ------------------------------------------------------------------ C9
\* C9: an AdjustSKUStock call that returns an error leaves the committed
\* stock as it was: the committed stock of a SKU is always its initial stock
\* plus the deltas of some of the calls that have not failed; the delta of a
\* call that returned an error is never part of it.
C9_FailedCallsLeaveStock ==
    \A k \in committed.skus :
        \E S \in SUBSET {r \in Adjusts(k.uuid) : result[r] \in {"ok", "pending"}} :
            k.stock = InitStock + SumDelta(S)

\* ----------------------------------------------------------------- C10
\* C10: only AdjustSKUStock opens a transaction (the session leaves "idle"
\* only by the Begin of an AdjustSKUStock call); a transaction is open only
\* while an AdjustSKUStock call is between its Begin and its return; and
\* when an AdjustSKUStock call returns, on any path, it leaves no
\* transaction open.
C10_Step ==
    /\ (txStatus = "idle" /\ txStatus' # "idle") =>
           \E r \in Reqs : /\ op[r] = "AdjustSKUStock"
                           /\ pc[r] = "begin" /\ pc'[r] = "read"
    /\ txStatus' # "idle" =>
           \E r \in Reqs : /\ op[r] = "AdjustSKUStock"
                           /\ pc'[r] \in {"read", "update", "commit", "rollback"}
    /\ \A r \in Reqs :
           (op[r] = "AdjustSKUStock" /\ pc[r] # "done" /\ pc'[r] = "done") =>
               txStatus' = "idle"

C10_TransactionScope == [][C10_Step]_vars

\* An AdjustSKUStock call has returned an error after its Begin (through the
\* deferred Rollback), another one has returned success (through Commit),
\* and the session has no transaction open.
C10_Witness ==
    /\ txStatus = "idle"
    /\ \E r, q \in Reqs :
        /\ op[r] = "AdjustSKUStock" /\ op[q] = "AdjustSKUStock"
        /\ pc[r] = "done" /\ result[r] \in {"SKUNotFound", "InsufficientStock"}
        /\ pc[q] = "done" /\ result[q] = "ok"

\* ----------------------------------------------------------------- C11
\* The error a call on a SKU holding InitStock copies returns when no other
\* call runs.
C11_Alone(r) ==
    IF Insufficient(InitStock, arg[r].delta) THEN "InsufficientStock" ELSE "ok"

\* C11: AdjustSKUStock calls on different SKUs do not fail each other: once
\* calls that all target different SKUs have returned, none with a storage
\* failure, each has the result it would have had alone and the stock of
\* its SKU reflects that result (changed by its delta if it succeeded,
\* unchanged if not).
C11_DifferentSkusIndependent ==
    (/\ Quiescent
     /\ \A r \in Done : op[r] = "AdjustSKUStock" /\ result[r] # "err_unavailable"
     /\ \A r, q \in Done : r # q => arg[r].uuid # arg[q].uuid) =>
        \A r \in Done :
            /\ result[r] = C11_Alone(r)
            /\ Stocks(committed, arg[r].uuid) =
                   {InitStock + (IF result[r] = "ok" THEN arg[r].delta ELSE 0)}

\* ----------------------------------------------------------------- C12
\* The three calls of SpecAssoc have returned, none with a storage failure,
\* and the connection is still open.
C12_Returned ==
    /\ Done = Reqs
    /\ alive
    /\ \A r \in Reqs : result[r] # "err_unavailable"

\* C12 as claimed: adjusting by d1 and then by d2 leaves the same stock as
\* adjusting once by d1 + d2 from the same starting stock.
C12_SequentialAssociative ==
    C12_Returned => Stocks(committed, 1) = Stocks(committed, 2)

\* C12 as amended: the same, when the adjustments by d1 and by d2 both
\* succeed; the single adjustment by d1 + d2 then succeeds as well.
C12_SuccessfulAssociative ==
    (C12_Returned /\ result[1] = "ok" /\ result[2] = "ok") =>
        /\ result[3] = "ok"
        /\ Stocks(committed, 1) = Stocks(committed, 2)
        /\ Stocks(committed, 1) = {InitStock + arg[1].delta + arg[2].delta}

\* A restock followed by the sale of InitStock + 1 copies, and InitStock
\* copies sold at once, both empty the shelf.
C12_Witness ==
    /\ C12_Returned
    /\ \A r \in Reqs : result[r] = "ok"
    /\ arg[1].delta = 1 /\ arg[2].delta = 0 - InitStock - 1
    /\ Stocks(committed, 1) = {0} /\ Stocks(committed, 2) = {0}

\* ----------------------------------------------------------------- C13
\* The book, the store and the pair of a CreateSKU call, as the tables hold
\* them.
BookLive(d, b) == b \in DOMAIN d.books /\ ~d.books[b].deleted

StoreLive(d, s) == s \in DOMAIN d.stores /\ ~d.stores[s].deleted

PairExists(d, b, s) == \E k \in d.skus : k.book = b /\ k.store = s

StorageErrors == {"err_unavailable", "err_tx_aborted"}

\* C13: CreateSKU checks in a fixed order.  Unless the statement fails in
\* storage: its first step returns BookNotFound exactly when the book is
\* absent or soft-deleted (the store is not looked at); its second step is
\* reached only past the first and returns StoreNotFound exactly when the
\* store is absent or soft-deleted (the SKUs are not looked at); its third
\* step is reached only past the second and returns SKUAlreadyExists exactly
\* when a SKU of the pair exists; and the skus table changes only in the
\* step that follows the three checks.
C13_Step ==
    \A r \in Reqs :
        (op[r] = "CreateSKU" /\ pc'[r] # pc[r] /\ result'[r] \notin StorageErrors) =>
            LET a == arg[r] IN
            /\ pc[r] = "book" =>
                   /\ (result'[r] = "BookNotFound") = ~BookLive(db, a.book)
                   /\ pc'[r] = IF BookLive(db, a.book) THEN "store" ELSE "done"
            /\ pc[r] = "store" =>
                   /\ (result'[r] = "StoreNotFound") = ~StoreLive(db, a.store)
                   /\ pc'[r] = IF StoreLive(db, a.store) THEN "exists" ELSE "done"
            /\ pc[r] = "exists" =>
                   /\ (result'[r] = "SKUAlreadyExists") = PairExists(db, a.book, a.store)
                   /\ pc'[r] = IF PairExists(db, a.book, a.store) THEN "done" ELSE "insert"
            /\ pc[r] # "insert" => db'.skus = db.skus
            /\ result'[r] = "BookNotFound" => pc[r] = "book"
            /\ result'[r] = "StoreNotFound" => pc[r] = "store"
            /\ result'[r] = "SKUAlreadyExists" => pc[r] = "exists"

C13_ChecksInOrder == [][C13_Step]_vars

\* A CreateSKU call has returned StoreNotFound for a soft-deleted store in
\* which the book already has a SKU.
C13_Witness ==
    \E r \in Reqs :
        /\ op[r] = "CreateSKU" /\ result[r] = "StoreNotFound"
        /\ arg[r].store \in DOMAIN db.stores
        /\ PairExists(db, arg[r].book, arg[r].store)

\* ----------------------------------------------------------------- C14
\* Once no call is in flight, none has failed in storage and the connection
\* is open, the SKU of every CreateSKU call that returned success is in the
\* skus table.
C14_Durable ==
    (Quiescent /\ alive /\ \A r \in Reqs : result[r] \notin StorageErrors) =>
        \A r \in Reqs :
            (op[r] = "CreateSKU" /\ result[r] = "ok") =>
                GetSKUByUUID(committed, ret[r].uuid) # {}

\* C14: a step of a CreateSKU call that does not end it with success leaves
\* the skus table unchanged, as the session sees it and as committed; the
\* step that ends it with success adds exactly one row, which has the book,
\* store, price and stock of the request, changes no other row, and the row
\* is a durable insertion.
C14_Step ==
    /\ \A r \in Reqs :
        (op[r] = "CreateSKU" /\ pc'[r] # pc[r]) =>
            IF result'[r] = "ok"
            THEN /\ ret'[r] \notin db.skus
                 /\ db'.skus = db.skus \cup {ret'[r]}
                 /\ ret'[r].book = arg[r].book /\ ret'[r].store = arg[r].store
                 /\ ret'[r].price = arg[r].price /\ ret'[r].stock = arg[r].stock
            ELSE db'.skus = db.skus /\ committed'.skus = committed.skus
    /\ C14_Durable'

C14_CreateFrame == [][C14_Step]_vars

\* ----------------------------------------------------------------- C15
\* C15: under any interleaving of CreateSKU and DeleteStore calls, the step
\* that inserts a SKU finds its book and its store in the tables, both not
\* soft-deleted.
C15_Step ==
    \A r \in Reqs :
        (op[r] = "CreateSKU" /\ pc[r] = "insert" /\ result'[r] = "ok") =>
            /\ BookLive(db, arg[r].book)
            /\ StoreLive(db, arg[r].store)

C15_InsertForLiveBookAndStore == [][C15_Step]_vars

\* ----------------------------------------------------------------- C16
\* C16: the lookup of GetSKU, UpdateSKUPrice and AdjustSKUStock returns
\* SKUNotFound exactly when no SKU has the UUID (unless the statement fails
\* in storage), and as long as the connection lives no step of a call that
\* ends with SKUNotFound changes the skus table, neither as the session
\* shows it nor as committed.
C16_Step ==
    \A r \in Reqs :
        (op[r] \in {"GetSKU", "UpdateSKUPrice", "AdjustSKUStock"} /\ pc'[r] # pc[r]) =>
            /\ (pc[r] \in {"get", "read"} /\ result'[r] \notin StorageErrors) =>
                   (result'[r] = "SKUNotFound") = (\A k \in db.skus : k.uuid # arg[r].uuid)
            /\ (result'[r] = "SKUNotFound" /\ alive') =>
                   /\ db'.skus = db.skus
                   /\ committed'.skus = committed.skus

C16_UnknownSkuChangesNothing == [][C16_Step]_vars

\* ----------------------------------------------------------------- C17
\* The rows of the tables d other than the SKU u.
C17_Others(d, u) == {k \in d.skus : k.uuid # u}

\* Once no call is in flight, none has failed in storage and the connection
\* is open, the tables hold what the successful calls on SKU 1 did: its
\* stock is the initial stock plus the delta of every AdjustSKUStock that
\* returned success (price updates changed no stock), its price is the
\* initial one unless an UpdateSKUPrice returned success (adjustments changed
\* no price), its book and store are as they were, and so is every other
\* SKU.
C17_Applied ==
    (Quiescent /\ alive /\ \A r \in Reqs : result[r] \notin StorageErrors) =>
        /\ Stocks(committed, 1) =
               {InitStock + SumDelta({r \in Adjusts(1) : result[r] = "ok"})}
        /\ \A k \in GetSKUByUUID(committed, 1) :
               /\ k.book = 1 /\ k.store = 1
               /\ (\A r \in Reqs : ~(op[r] = "UpdateSKUPrice" /\ result[r] = "ok")) =>
                      k.price = 0
        /\ C17_Others(committed, 1) = C17_Others(InitDbPair, 1)

\* C17: a successful UpdateSKUPrice sets the price of its SKU to the new
\* price and a successful AdjustSKUStock changes the stock of its SKU by the
\* delta; each leaves the other columns of the row and every other SKU as
\* they were.  The UPDATE of the call writes exactly that and the call
\* returns the updated row, the Commit of AdjustSKUStock changes no row, and
\* once the calls have returned the tables hold the change of every
\* successful call.
C17_Step ==
    /\ \A r \in Reqs :
        (pc[r] = "setprice" /\ result'[r] = "ok") =>
            \E k \in db.skus :
                /\ k.uuid = arg[r].uuid
                /\ ret'[r] = [k EXCEPT !.price = arg[r].price]
                /\ db'.skus = C17_Others(db, k.uuid) \cup {ret'[r]}
    /\ \A r \in Reqs :
        (pc[r] = "update" /\ pc'[r] = "commit") =>
            \E k \in db.skus :
                /\ k.uuid = arg[r].uuid
                /\ ret'[r] = [k EXCEPT !.stock = k.stock + arg[r].delta]
                /\ db'.skus = C17_Others(db, k.uuid) \cup {ret'[r]}
    /\ \A r \in Reqs :
        (pc[r] = "commit" /\ result'[r] = "ok") => db'.skus = db.skus
    /\ C17_Applied'

C17_UpdateFrame == [][C17_Step]_vars

\* ----------------------------------------------------------------- C18
\* The price updates of SKU u that returned success.
C18_Updates(u) ==
    {r \in Reqs : op[r] = "UpdateSKUPrice" /\ arg[r].uuid = u /\ result[r] = "ok"}

\* Once no call is in flight, none has failed in storage and the connection
\* is open, the price of a SKU with successful price updates is a price one
\* of them wrote.
C18_LastWritten ==
    (Quiescent /\ alive /\ \A r \in Reqs : result[r] \notin StorageErrors) =>
        \A k \in committed.skus :
            C18_Updates(k.uuid) # {} =>
                k.price \in {arg[r].price : r \in C18_Updates(k.uuid)}

\* C18: concurrent UpdateSKUPrice calls on one SKU are last-writer-wins.  The
\* UPDATE of a price update succeeds whatever the other calls do (unless it
\* fails in storage), leaves the price it wrote in the row, and neither
\* changes a stock nor ends or aborts the transaction of a concurrent
\* AdjustSKUStock; and once all calls have returned, the price is the one
\* written by a successful update.
C18_Step ==
    /\ \A r \in Reqs :
        (pc[r] = "setprice" /\ pc'[r] # pc[r] /\ result'[r] \notin StorageErrors) =>
            /\ result'[r] = "ok"
            /\ \A k \in GetSKUByUUID(db', arg[r].uuid) : k.price = arg[r].price
            /\ \A u \in SkuUUIDs : /\ Stocks(db', u) = Stocks(db, u)
                                   /\ Stocks(committed', u) = Stocks(committed, u)
            /\ txStatus' = txStatus
    /\ C18_LastWritten'

C18_LastWriterWins == [][C18_Step]_vars

\* ----------------------------------------------------------------- C19
\* C19: whatever price the caller sends, no SKU has a negative price: not in
\* the tables the session sees, not in the committed tables, not in a row
\* returned to a caller; and no call is ever about to send an INSERT or a
\* price UPDATE with a negative price.
C19_PriceNeverNegative ==
    /\ \A k \in db.skus \cup committed.skus : k.price >= 0
    /\ \A r \in Reqs : ret[r].price >= 0
    /\ \A r \in Reqs : pc[r] \in {"insert", "setprice"} => arg[r].price >= 0

\* A CreateSKU and an UpdateSKUPrice request with a negative price have both
\* been answered.
C19_Witness ==
    \E r, q \in Reqs :
        /\ op[r] = "CreateSKU" /\ arg[r].price < 0 /\ pc[r] = "done"
        /\ op[q] = "UpdateSKUPrice" /\ arg[q].price < 0 /\ pc[q] = "done"

\* ----------------------------------------------------------------- C20
\* The request a handler has just decoded is invalid: a CreateSKU with a
\* negative price or stock, an UpdateSKUPrice with a negative price.
C20_Invalid(o, a) ==
    \/ o = "CreateSKU" /\ (a.price < 0 \/ a.stock < 0)
    \/ o = "UpdateSKUPrice" /\ a.price < 0

\* C20: a CreateSKU request with a negative price or stock and an
\* UpdateSKUPrice request with a negative price are rejected as invalid
\* input by the step that receives them, which returns at once and changes
\* nothing in storage; such a request never takes a storage step.
C20_Step ==
    \A r \in Reqs :
        /\ (pc[r] = "new" /\ pc'[r] # "new" /\ C20_Invalid(op'[r], arg'[r])) =>
               /\ pc'[r] = "done"
               /\ result'[r] = "InvalidInput"
               /\ UNCHANGED session
        /\ C20_Invalid(op[r], arg[r]) => pc'[r] = pc[r]

C20_InvalidInputRejectedFirst == [][C20_Step]_vars

\* A CreateSKU request with a valid price and a negative stock has been
\* rejected, and nothing was created.
C20_Witness ==
    \E r \in Reqs :
        /\ op[r] = "CreateSKU" /\ arg[r].price >= 0 /\ arg[r].stock < 0
        /\ result[r] = "InvalidInput"
        /\ db = InitDb /\ nextId = 2

\* ----------------------------------------------------------------- C21
\* C21: GetAvailability looks the book up first.  Unless the statement fails
\* in storage: its first step returns BookNotFound exactly when the book is
\* absent or soft-deleted, and returns no list; its second step is reached
\* only past the first, returns no error, and returns the empty list when
\* no SKU of the book exists; BookNotFound comes from the first step only.
C21_Step ==
    \A r \in Reqs :
        (op[r] = "GetAvailability" /\ pc'[r] # pc[r] /\ result'[r] \notin StorageErrors) =>
            LET b == arg[r].book IN
            /\ pc[r] = "availbook" =>
                   /\ (result'[r] = "BookNotFound") = ~BookLive(db, b)
                   /\ pc'[r] = IF BookLive(db, b) THEN "availlist" ELSE "done"
                   /\ out'[r] = {}
            /\ pc[r] = "availlist" =>
                   /\ result'[r] = "ok" /\ pc'[r] = "done"
                   /\ (\A k \in db.skus : k.book # b) => out'[r] = {}
            /\ result'[r] = "BookNotFound" => pc[r] = "availbook"

C21_BookCheckedFirst == [][C21_Step]_vars

\* One availability query has returned BookNotFound for the soft-deleted
\* book, which has a SKU in a live store, and another has returned the empty
\* list for the book no store sells.
C21_Witness ==
    \E r, q \in Reqs :
        /\ op[r] = "GetAvailability" /\ arg[r].book = 3
        /\ result[r] = "BookNotFound" /\ out[r] = {}
        /\ ListBookAvailability(db, 3) # {}
        /\ op[q] = "GetAvailability" /\ arg[q].book = 4
        /\ result[q] = "ok" /\ out[q] = {}

\* ----------------------------------------------------------------- C22
\* C22: the list a GetAvailability call returns for an existing book is
\* exactly the committed SKUs of that book whose store is not soft-deleted
\* in the committed tables, each with its committed price and stock.
C22_Step ==
    \A r \in Reqs :
        (op[r] = "GetAvailability" /\ pc[r] = "availlist" /\ result'[r] = "ok") =>
            out'[r] = {k \in committed.skus :
                          k.book = arg[r].book /\ StoreLive(committed, k.store)}

C22_ListsCommittedSkus == [][C22_Step]_vars

\* ----------------------------------------------------------------- C23
\* The SKU u exists and its store is soft-deleted, in the tables d.
C23_Orphan(d, u) == \E k \in d.skus : k.uuid = u /\ ~StoreLive(d, k.store)

\* C23: soft-deleting a store does not cascade to its SKUs.  The DeleteStore
\* statement changes no SKU row; and on a SKU whose store is soft-deleted,
\* unless the statement fails in storage, GetSKU returns the row, the lookup
\* of UpdateSKUPrice and of AdjustSKUStock finds it, the price UPDATE sets
\* its price and succeeds, and the stock UPDATE of a delta the stock covers
\* adds the delta.
C23_Step ==
    \A r \in Reqs :
        (pc'[r] # pc[r] /\ result'[r] \notin StorageErrors) =>
            /\ pc[r] = "delete" =>
                   db'.skus = db.skus /\ committed'.skus = committed.skus
            /\ (pc[r] \in {"get", "setprice", "read", "update"}
                    /\ C23_Orphan(db, arg[r].uuid)) =>
                   LET k == CHOOSE k \in db.skus : k.uuid = arg[r].uuid IN
                   /\ (pc[r] = "get" /\ op[r] = "GetSKU") =>
                          result'[r] = "ok" /\ ret'[r] = k
                   /\ (pc[r] = "get" /\ op[r] = "UpdateSKUPrice") => pc'[r] = "setprice"
                   /\ pc[r] = "setprice" =>
                          /\ result'[r] = "ok"
                          /\ [k EXCEPT !.price = arg[r].price] \in db'.skus
                   /\ pc[r] = "read" => result'[r] # "SKUNotFound"
                   /\ (pc[r] = "update" /\ k.stock + arg[r].delta >= 0) =>
                          /\ pc'[r] = "commit"
                          /\ [k EXCEPT !.stock = k.stock + arg[r].delta] \in db'.skus

C23_NoCascade == [][C23_Step]_vars

\* After the store's deletion, a price update and a sale of the whole stock
\* have both succeeded on its SKU and are committed.
C23_Witness ==
    /\ ~StoreLive(committed, 1)
    /\ \E q, t \in Reqs :
        /\ op[q] = "UpdateSKUPrice" /\ result[q] = "ok" /\ arg[q].price = MaxPrice
        /\ op[t] = "AdjustSKUStock" /\ result[t] = "ok" /\ arg[t].delta = 0 - InitStock
        /\ NewSku(1, 1, 1, MaxPrice, 0) \in committed.skus

\* ----------------------------------------------------------------- C24
\* The three calls of SpecIdem have returned, none with a storage failure,
\* and the connection is still open.
C24_Returned ==
    /\ Done = Reqs
    /\ alive
    /\ \A r \in Reqs : result[r] \notin StorageErrors

\* The price and the stock of SKU u, as committed.
C24_PriceStock(u) == {<<k.price, k.stock>> : k \in GetSKUByUUID(committed, u)}

\* C24 as claimed: a price update or a stock adjustment applied twice in a
\* row to a SKU leaves its price and stock as applying it once does.
C24_Idempotent ==
    C24_Returned => C24_PriceStock(1) = C24_PriceStock(2)

\* C24 as amended: a price update applied twice in a row leaves the price
\* and stock as applying it once does; a stock adjustment does not: when
\* both applications succeed, the stock is the stock after one application
\* plus the delta once more.
C24_PriceUpdateIdempotent ==
    C24_Returned =>
        /\ op[1] = "UpdateSKUPrice" =>
               /\ \A r \in Reqs : result[r] = "ok"
               /\ C24_PriceStock(1) = C24_PriceStock(2)
               /\ C24_PriceStock(1) = {<<arg[1].price, InitStock>>}
        /\ (op[1] = "AdjustSKUStock" /\ result[1] = "ok" /\ result[2] = "ok") =>
               /\ result[3] = "ok"
               /\ Stocks(committed, 1) = {InitStock + 2 * arg[1].delta}
               /\ Stocks(committed, 2) = {InitStock + arg[1].delta}

\* The price MaxPrice has been set twice on SKU 1 and once on SKU 2, and
\* both SKUs have that price and their initial stock.
C24_Witness ==
    /\ C24_Returned
    /\ op[1] = "UpdateSKUPrice" /\ arg[1].price = MaxPrice
    /\ \A r \in Reqs : result[r] = "ok"
    /\ C24_PriceStock(1) = {<<MaxPrice, InitStock>>}
    /\ C24_PriceStock(2) = {<<MaxPrice, InitStock>>}

\* ----------------------------------------------------------------- C25
\* The identities of the SKUs in the tables d: UUID (which stands for the id
\* as well), book and store.
C25_Identities(d) == {<<k.uuid, k.book, k.store>> : k \in d.skus}

\* C25: as long as the connection lives, no step of a CreateSKU,
\* UpdateSKUPrice, AdjustSKUStock, GetSKU, GetAvailability or DeleteStore
\* call removes a SKU or changes its UUID, book or store: every SKU of the
\* tables, as the session shows them and as committed, is still there with
\* the same identity after the step.
C25_Step ==
    alive' =>
        /\ C25_Identities(db) \subseteq C25_Identities(db')
        /\ C25_Identities(committed) \subseteq C25_Identities(committed')

C25_SkusOnlyGrow == [][C25_Step]_vars

\* ----------------------------------------------------------------- C26
\* No call of the scenario so far has failed in storage, and the connection
\* is open.
C26_NoFailure ==
    /\ alive
    /\ \A r \in Reqs : result[r] \notin StorageErrors

\* The scenario's SKU with the price p and the stock n.
C26_Sku(p, n) == [ret[3] EXCEPT !.price = p, !.stock = n]

\* C26: the scenario runs as the specification states.  With no storage
\* failure: CreateSKU(B1, S1, 500, 10) succeeds and returns the SKU of B1 in
\* S1 with price 500 and stock 10; AdjustStock(-3) succeeds with stock 7;
\* AdjustStock(-100) returns InsufficientStock and no row; UpdatePrice(450)
\* succeeds with price 450 and stock 7; the second CreateSKU(B1, S1) returns
\* SKUAlreadyExists; and after each call the table holds that one SKU with
\* the price and stock reached so far.
C26_ScenarioRuns ==
    C26_NoFailure =>
        /\ pc[3] = "done" =>
               /\ result[3] = "ok"
               /\ ret[3].book \in {b.id : b \in out[2]}
               /\ ret[3].store \in {st.uuid : st \in out[1]}
               /\ ret[3].price = Scenario.price /\ ret[3].stock = Scenario.stock
        /\ (pc[3] = "done" /\ pc[4] = "new") =>
               committed.skus = {C26_Sku(500, 10)}
        /\ pc[4] = "done" =>
               result[4] = "ok" /\ ret[4] = C26_Sku(500, 7)
        /\ (pc[4] = "done" /\ pc[6] # "done") =>
               committed.skus = {C26_Sku(500, 7)}
        /\ pc[5] = "done" =>
               result[5] = "InsufficientStock" /\ ret[5] = NoRow
        /\ pc[6] = "done" =>
               /\ result[6] = "ok" /\ ret[6] = C26_Sku(450, 7)
               /\ committed.skus = {C26_Sku(450, 7)}
        /\ pc[7] = "done" =>
               result[7] = "SKUAlreadyExists" /\ ret[7] = NoRow

\* The seven calls of the scenario have returned, none with a storage
\* failure, the last one with SKUAlreadyExists, and the one SKU has price
\* 450 and stock 7.
C26_Witness ==
    /\ C26_NoFailure
    /\ Done = Reqs
    /\ result[5] = "InsufficientStock" /\ result[7] = "SKUAlreadyExists"
    /\ \E k \in committed.skus : committed.skus = {k} /\ k.price = 450 /\ k.stock = 7

\* ----------------------------------------------------------------- C27
\* At most one book of the tables d has a given ISBN.
C27_OnePerISBN(d) ==
    \A b1, b2 \in DOMAIN d.books :
        (d.books[b1].isbn # 0 /\ d.books[b1].isbn = d.books[b2].isbn) => b1 = b2

\* C27: at most one book exists per ISBN, and a successful CreateBook with
\* an ISBN some book has already adds no book, returns that book's id, and
\* leaves that book with the data of the request: its title and author, and
\* its description, page count and publication year.
C27_Step ==
    /\ C27_OnePerISBN(db') /\ C27_OnePerISBN(committed')
    /\ \A r \in Reqs :
        (pc[r] = "createbook" /\ result'[r] = "ok"
                /\ \E b \in DOMAIN db.books : db.books[b].isbn = arg[r].isbn) =>
            /\ DOMAIN db'.books = DOMAIN db.books
            /\ \E b \in DOMAIN db.books :
                /\ db.books[b].isbn = arg[r].isbn
                /\ out'[r] = {BookRow(db', b)}
                /\ db'.books[b].title = arg[r].title
                /\ db'.books[b].description = arg[r].description

C27_OneBookPerISBN == [][C27_Step]_vars

\* ----------------------------------------------------------------- C28
\* s + d < 0 in unbounded integers, for a stock s >= 0: the sum is negative
\* only for a negative d, and is then within the int32 range.
C28_Negative(s, d) == d < 0 /\ s + d < 0

\* C28: unless the read fails in storage, the check of AdjustSKUStock
\* returns InsufficientStock exactly when the stock it read plus the delta
\* is negative in unbounded integer arithmetic; a positive delta never
\* returns InsufficientStock, whatever the stock.
C28_Step ==
    \A r \in Reqs :
        (pc[r] = "read" /\ pc'[r] # pc[r] /\ result'[r] \notin StorageErrors) =>
            \A k \in GetSKUByUUID(db, arg[r].uuid) :
                /\ k.stock >= 0
                /\ (result'[r] = "InsufficientStock") = C28_Negative(k.stock, arg[r].delta)
                /\ arg[r].delta > 0 => result'[r] # "InsufficientStock"

C28_InsufficientExactlyWhenNegative == [][C28_Step]_vars

\* ----------------------------------------------------------------- C29
\* The CreateStore request a handler has decoded lacks its name or address.
C29_Invalid(o, a) == o = "CreateStore" /\ ~ValidStoreRequest(a.name, a.address)

\* C29: a CreateStore request without a name or an address is answered 400
\* by the step that receives it, which returns at once and changes nothing
\* in storage; such a request takes no further step, so the service is not
\* called and no store is created.
C29_Step ==
    \A r \in Reqs :
        /\ (pc[r] = "new" /\ pc'[r] # "new" /\ C29_Invalid(op'[r], arg'[r])) =>
               /\ pc'[r] = "done"
               /\ result'[r] = "InvalidInput"
               /\ UNCHANGED session
        /\ C29_Invalid(op[r], arg[r]) =>
               /\ pc'[r] = pc[r]
               /\ out'[r] = {}

C29_InvalidStoreRejected == [][C29_Step]_vars

\* ----------------------------------------------------------------- C30
\* The store s has a row that is soft-deleted, in the tables d.
C30_Gone(d, s) == s \in DOMAIN d.stores /\ d.stores[s].deleted

\* As long as the connection lives, the store of every DeleteStore call that
\* returned success is soft-deleted in the tables the session shows.
C30_Hidden ==
    alive =>
        \A r \in Reqs :
            (op[r] = "DeleteStore" /\ result[r] = "ok"
                    /\ arg[r].store \in DOMAIN db.stores) =>
                C30_Gone(db, arg[r].store)

\* C30: store soft-delete is permanent and hides the store.  Unless the
\* statement fails in storage, on a soft-deleted store GetStore, UpdateStore
\* and the store lookup of CreateSKU return StoreNotFound, and UpdateStore
\* changes no store; ListStores returns no soft-deleted store; the delete
\* leaves name and address of the store as they were; and once DeleteStore
\* has returned success the store stays soft-deleted in every later state.
C30_Step ==
    /\ \A r \in Reqs :
        (pc'[r] # pc[r] /\ result'[r] \notin StorageErrors) =>
            LET s == arg[r].store IN
            /\ (pc[r] \in {"getstore", "updatestore", "store"} /\ C30_Gone(db, s)) =>
                   /\ result'[r] = "StoreNotFound"
                   /\ db'.stores = db.stores
            /\ pc[r] = "liststores" =>
                   \A row \in out'[r] : ~C30_Gone(db, row.uuid)
            /\ (pc[r] = "delete" /\ s \in DOMAIN db.stores) =>
                   /\ C30_Gone(db', s)
                   /\ StoreRow(db', s) = StoreRow(db, s)
    /\ C30_Hidden'

C30_SoftDeleteIsPermanent == [][C30_Step]_vars

TypeOK ==
    /\ txStatus \in {"idle", "open", "failed"}
    /\ alive \in BOOLEAN
    /\ txStatus = "idle" => db = committed

====
